---- MODULE Spec2Model ----
(***************************************************************************)
(* Windowed cache (InfiniteTableModel, ui/models.py) over the query engine *)
(* (DatabaseManager, core/database.py) of turbo-tosec-gui.                 *)
(*                                                                         *)
(* Text is a sequence of characters, so that ILIKE matching, ordering and  *)
(* str() are computed and not assumed.  Python values and database cells   *)
(* are tagged records of one shape, so that any two of them compare.       *)
(***************************************************************************)
EXTENDS Integers, Sequences, FiniteSets, TLC

VARIABLES
    db_file,        \* the database file at db_path, as duckdb.connect finds it
    store,          \* rows of table "roms" on disk, in store order
    conn,           \* DatabaseManager.conn: TRUE = open handle, FALSE = None
    column_names,   \* DatabaseManager._column_names
    PAGE_SIZE,      \* InfiniteTableModel.PAGE_SIZE (fixed at construction)
    total_rows,     \* InfiniteTableModel._total_rows
    filters,        \* InfiniteTableModel._filters (column name -> pattern)
    sort_col_name,  \* InfiniteTableModel._sort_col_name ("" = None)
    sort_asc,       \* InfiniteTableModel._sort_asc
    cache_data,     \* InfiniteTableModel._cache_data
    cache_offset,   \* InfiniteTableModel._cache_offset
    cache_valid,    \* InfiniteTableModel._cache_valid
    issued_rows,    \* callers may still hold an index of any row below this
    store_changed,  \* the store was written since the last refresh()
    search_text,    \* MainWindow.search_input.text()
    search_timer,   \* MainWindow.search_timer: ticks left, -1 = not running
    burst_keys,     \* textChanged signals of the current or last burst of typing
    import_enabled, \* MainWindow.import_button.isEnabled()
    w_pc,           \* IngestionWorker: where its thread stands in run()
    is_running,     \* IngestionWorker.is_running
    stop_state,     \* IngestionWorker.stop(): not called, waiting, returned
    emitted,        \* IngestionWorker: how many times each signal was emitted
    panel,          \* DetailPanel: vault manager, labels, Play button, playable path
    folders,        \* the directories that exist under the vault root (and the root)
    ensured,        \* VaultManager.ensure_structure: its most recent call and result
    launcher,       \* Launcher.launch: its arguments, the files, and what it did
    last            \* what the most recent operation did (observer)

vars == <<db_file, store, conn, column_names, PAGE_SIZE, total_rows, filters,
          sort_col_name, sort_asc, cache_data, cache_offset, cache_valid,
          issued_rows, store_changed, search_text, search_timer, burst_keys,
          import_enabled, w_pc, is_running, stop_state, emitted, panel, folders,
          ensured, launcher, last>>

dbVars == <<db_file, store, conn, column_names>>
searchVars == <<search_text, search_timer, burst_keys>>
workerVars == <<w_pc, is_running, stop_state, emitted>>
sideVars == <<panel, folders, ensured, launcher>>
uiVars == <<searchVars, import_enabled, workerVars, sideVars>>
ctxVars == <<filters, sort_col_name, sort_asc>>
cacheVars == <<cache_data, cache_offset, cache_valid>>

----------------------------------------------------------------------------
(* Bounds *)

MaxStore == 3
SmallPage == 2
MaxKeys == 3
MaxProgress == 2

----------------------------------------------------------------------------
(* Values *)

None == [t |-> "None", v |-> <<>>]
Str(s) == [t |-> "str", v |-> s]
NULL == [t |-> "NULL", v |-> <<>>]
Text(s) == [t |-> "text", v |-> s]

Schema == <<"title", "platform">>

\* what the import writes: the i-th row it adds to the table
Titles == << <<"A", "b">>, <<"B">>, <<"a">> >>
Platforms == << NULL, Text(<<"a">>), Text(<<"B", "a">>), Text(<<"b">>) >>
FeedRow(i) == << Text(Titles[((i - 1) % 3) + 1]), Platforms[((i - 1) % 4) + 1] >>

Patterns == { <<>>, <<"a">> }
FilterColumns == { "title", "bogus" }
Roles == { "DisplayRole", "EditRole" }

Min(a, b) == IF a < b THEN a ELSE b

\* Python's seq[i]: negative i counts from the end; IndexError outside.
PyInRange(seq, i) == (0 - Len(seq)) <= i /\ i < Len(seq)
PyIndex(seq, i) == IF i < 0 THEN seq[Len(seq) + i + 1] ELSE seq[i + 1]

----------------------------------------------------------------------------
(* DatabaseManager: the query engine *)

Lower(ch) == CASE ch = "A" -> "a" [] ch = "B" -> "b" [] OTHER -> ch

\* byte order of the characters, as the store compares text
Code(ch) == CASE ch = "A" -> 65 [] ch = "B" -> 66 [] ch = "a" -> 97
              [] ch = "b" -> 98 [] OTHER -> 0

\* SQL LIKE on folded text: % is any run, _ is any one character
RECURSIVE LikeMatch(_, _)
LikeMatch(p, s) ==
    IF p = <<>> THEN s = <<>>
    ELSE IF Head(p) = "%"
         THEN LikeMatch(Tail(p), s) \/ (s # <<>> /\ LikeMatch(p, Tail(s)))
         ELSE /\ s # <<>>
              /\ (Head(p) = "_" \/ Lower(Head(p)) = Lower(Head(s)))
              /\ LikeMatch(Tail(p), Tail(s))

\* cell ILIKE param; NULL ILIKE anything is not true
ILike(cell, param) == cell.t = "text" /\ LikeMatch(param, cell.v)

ColumnPos(col) == CHOOSE i \in 1..Len(Schema) : Schema[i] = col

SchemaColumns == { Schema[i] : i \in 1..Len(Schema) }

\* the (column, "%val%") conditions; entries with an empty value are skipped
\* (a set: the conditions are ANDed, their order does not matter)
build_where_clause(f) ==
    { <<col, <<"%">> \o f[col] \o <<"%">>>> : col \in { c \in DOMAIN f : f[c] # <<>> } }

\* the store rejects the statement: no handle, no table "roms", "WHERE"
\* followed by nothing, or a condition on a column the table does not have
\* faulty variant: a statement is answered although no handle is open
QueryFails_IgnoresHandle(f) ==
    \/ db_file # "ok"
    \/ (DOMAIN f # {} /\ build_where_clause(f) = {})
    \/ \E cond \in build_where_clause(f) : cond[1] \notin SchemaColumns

QueryFails(f) ==
    \/ ~conn
    \/ db_file # "ok"
    \/ (DOMAIN f # {} /\ build_where_clause(f) = {})
    \/ \E cond \in build_where_clause(f) : cond[1] \notin SchemaColumns

RowMatches(row, f) ==
    \A cond \in build_where_clause(f) : ILike(row[ColumnPos(cond[1])], cond[2])

Filtered(rows, f) ==
    IF DOMAIN f = {} THEN rows
    ELSE SelectSeq(rows, LAMBDA row : RowMatches(row, f))

RECURSIVE TextLess(_, _)
TextLess(a, b) ==
    IF b = <<>> THEN FALSE
    ELSE IF a = <<>> THEN TRUE
    ELSE IF Code(Head(a)) # Code(Head(b)) THEN Code(Head(a)) < Code(Head(b))
    ELSE TextLess(Tail(a), Tail(b))

\* x goes strictly before y under ORDER BY <dir>; NULLs go last either way
CellBefore(x, y, asc) ==
    IF x.t = "NULL" THEN FALSE
    ELSE IF y.t = "NULL" THEN TRUE
    ELSE IF asc THEN TextLess(x.v, y.v) ELSE TextLess(y.v, x.v)

RECURSIVE InsertSorted(_, _, _, _)
InsertSorted(row, sorted, k, asc) ==
    IF sorted = <<>> THEN <<row>>
    ELSE IF CellBefore(row[k], Head(sorted)[k], asc)
         THEN <<row>> \o sorted
         ELSE <<Head(sorted)>> \o InsertSorted(row, Tail(sorted), k, asc)

\* ORDER BY column k: rows with equal keys keep their store order
RECURSIVE OrderBy(_, _, _)
OrderBy(rows, k, asc) ==
    IF rows = <<>> THEN <<>>
    ELSE InsertSorted(rows[Len(rows)],
                      OrderBy(SubSeq(rows, 1, Len(rows) - 1), k, asc), k, asc)

\* faulty variant: the ORDER BY clause is never appended
Ordered_NeverSorts(f, sort_col, asc) == Filtered(store, f)

\* the rows the SELECT of fetch_data ranges over, before LIMIT/OFFSET
Ordered(f, sort_col, asc) ==
    IF sort_col # "" /\ sort_col \in { column_names[i] : i \in 1..Len(column_names) }
    THEN OrderBy(Filtered(store, f), ColumnPos(sort_col), asc)
    ELSE Filtered(store, f)

\* faulty variant: an error code instead of 0 when the query fails
get_total_count_ErrorCode(f) ==
    IF QueryFails(f) THEN -1 ELSE Len(Filtered(store, f))

get_total_count(f) ==
    IF QueryFails(f) THEN 0 ELSE Len(Filtered(store, f))

\* faulty variant: the slice is one row short of the limit
fetch_data_OneShort(limit, offset, f, sort_col, asc) ==
    IF QueryFails(f) \/ limit < 0 \/ offset < 0 THEN <<>>
    ELSE SubSeq(Ordered(f, sort_col, asc), offset + 1,
                Min(offset + limit - 1, Len(Ordered(f, sort_col, asc))))

\* (the store rejects a negative LIMIT or OFFSET like any failing statement)
fetch_data(limit, offset, f, sort_col, asc) ==
    IF QueryFails(f) \/ limit < 0 \/ offset < 0 THEN <<>>
    ELSE SubSeq(Ordered(f, sort_col, asc), offset + 1,
                Min(offset + limit, Len(Ordered(f, sort_col, asc))))

\* the texts of S in ascending order, as ORDER BY returns them
RECURSIVE SortTexts(_)
SortTexts(S) ==
    IF S = {} THEN <<>>
    ELSE LET m == CHOOSE x \in S : \A y \in S \ {x} : TextLess(x, y)
         IN  <<m>> \o SortTexts(S \ {m})

\* the values SELECT DISTINCT column ... ORDER BY column returns, None included
DistinctCells(column) ==
    { store[i][ColumnPos(column)] : i \in 1..Len(store) }

\* faulty variant: the None of a NULL cell is not filtered out
get_distinct_values_KeepsNone(column) ==
    IF column \notin { column_names[i] : i \in 1..Len(column_names) } THEN <<>>
    ELSE IF ~conn \/ db_file # "ok" THEN <<>>
    ELSE SortTexts({ cell.v : cell \in DistinctCells(column) })

get_distinct_values(column) ==
    IF column \notin { column_names[i] : i \in 1..Len(column_names) } THEN <<>>
    ELSE IF ~conn \/ db_file # "ok" THEN <<>>
    ELSE SortTexts({ cell.v : cell \in { x \in DistinctCells(column) : x.t # "NULL" } })

----------------------------------------------------------------------------
(* InfiniteTableModel: the windowed cache *)

rowCount == total_rows

columnCount == Len(column_names)

InvalidIndex == [valid |-> FALSE, row |-> -1, col |-> -1]

\* faulty variant: negative rows and columns are not rejected
index_NoLowerBound(r, c) ==
    IF r < rowCount /\ c < columnCount
    THEN [valid |-> TRUE, row |-> r, col |-> c]
    ELSE InvalidIndex

\* QAbstractTableModel.index(row, column), as the callers obtain an index:
\* a valid index only for a cell the model has at the time of the call
index(r, c) ==
    IF 0 <= r /\ r < rowCount /\ 0 <= c /\ c < columnCount
    THEN [valid |-> TRUE, row |-> r, col |-> c]
    ELSE InvalidIndex

\* faulty variant: rows before the window's start count as cached
is_row_in_cache_NoLowerBound(row_index) ==
    IF ~cache_valid \/ cache_data = <<>> THEN FALSE
    ELSE row_index < cache_offset + Len(cache_data)

\* faulty variant: the window's first row does not count as cached
is_row_in_cache_StrictStart(row_index) ==
    IF ~cache_valid \/ cache_data = <<>> THEN FALSE
    ELSE cache_offset < row_index /\ row_index < cache_offset + Len(cache_data)

\* faulty variant: a valid window counts as holding its whole page
is_row_in_cache_WholePage(row_index) ==
    IF ~cache_valid THEN FALSE
    ELSE cache_offset <= row_index /\ row_index < cache_offset + PAGE_SIZE

is_row_in_cache(row_index) ==
    IF ~cache_valid \/ cache_data = <<>> THEN FALSE
    ELSE cache_offset <= row_index /\ row_index < cache_offset + Len(cache_data)

\* faulty variant: the window starts at the requested row
PageStart_Unaligned(row_index) == row_index

PageStart(row_index) == (row_index \div PAGE_SIZE) * PAGE_SIZE

NoQuery == [limit |-> 0, offset |-> 0, filters |-> <<>>, sort_col |-> "", sort_asc |-> TRUE]

\* _fetch_page_containing: the query it issues and the window it installs
\* faulty variant: the slice query drops the sort
FetchQuery_NoSort(row_index) ==
    [limit |-> PAGE_SIZE, offset |-> PageStart(row_index), filters |-> filters,
     sort_col |-> "", sort_asc |-> TRUE]

FetchQuery(row_index) ==
    [limit |-> PAGE_SIZE, offset |-> PageStart(row_index), filters |-> filters,
     sort_col |-> sort_col_name, sort_asc |-> sort_asc]

\* faulty variant: the new window is not marked valid
fetch_page_containing_NotValid(row_index) ==
    LET q == FetchQuery(row_index)
    IN  [data |-> fetch_data(q.limit, q.offset, q.filters, q.sort_col, q.sort_asc),
         offset |-> q.offset, valid |-> FALSE]

\* faulty variant: the fetched rows are appended to a valid window
fetch_page_containing_Patches(row_index) ==
    LET q == FetchQuery(row_index)
        new_data == fetch_data(q.limit, q.offset, q.filters, q.sort_col, q.sort_asc)
    IN  [data |-> IF cache_valid THEN cache_data \o new_data ELSE new_data,
         offset |-> q.offset, valid |-> TRUE]

fetch_page_containing(row_index) ==
    LET q == FetchQuery(row_index)
    IN  [data |-> fetch_data(q.limit, q.offset, q.filters, q.sort_col, q.sort_asc),
         offset |-> q.offset, valid |-> TRUE]

\* faulty variant: a null cell is reported as absent
Display_NullAbsent(val) == IF val.t = "NULL" THEN None ELSE Str(val.v)

\* str(val) if val is not None else ""
Display(val) == IF val.t = "NULL" THEN Str(<<>>) ELSE Str(val.v)

\* faulty variant: the page is fetched on every call, cached or not
data_AlwaysFetches(idx, role) ==
    IF ~idx.valid \/ role # "DisplayRole"
    THEN [ret |-> None, fetched |-> FALSE, q |-> NoQuery,
          window |-> [data |-> cache_data, offset |-> cache_offset, valid |-> cache_valid]]
    ELSE LET w == fetch_page_containing(idx.row)
             local_index == idx.row - w.offset
         IN  [ret |-> IF PyInRange(w.data, local_index)
                         /\ PyInRange(PyIndex(w.data, local_index), idx.col)
                      THEN Display(PyIndex(PyIndex(w.data, local_index), idx.col))
                      ELSE None,
              fetched |-> TRUE,
              q |-> FetchQuery(idx.row),
              window |-> w]

\* faulty variant: local_index is taken against the offset the window had
\* before the fetch
data_StaleOffset(idx, role) ==
    IF ~idx.valid \/ role # "DisplayRole"
    THEN [ret |-> None, fetched |-> FALSE, q |-> NoQuery,
          window |-> [data |-> cache_data, offset |-> cache_offset, valid |-> cache_valid]]
    ELSE LET miss == ~is_row_in_cache(idx.row)
             w == IF miss THEN fetch_page_containing(idx.row)
                  ELSE [data |-> cache_data, offset |-> cache_offset, valid |-> cache_valid]
             local_index == idx.row - cache_offset
         IN  [ret |-> IF PyInRange(w.data, local_index)
                         /\ PyInRange(PyIndex(w.data, local_index), idx.col)
                      THEN Display(PyIndex(PyIndex(w.data, local_index), idx.col))
                      ELSE None,
              fetched |-> miss,
              q |-> IF miss THEN FetchQuery(idx.row) ELSE NoQuery,
              window |-> w]

\* data(index, role): the value returned, whether a slice query was issued,
\* and the window afterwards
data(idx, role) ==
    IF ~idx.valid \/ role # "DisplayRole"
    THEN [ret |-> None, fetched |-> FALSE, q |-> NoQuery,
          window |-> [data |-> cache_data, offset |-> cache_offset, valid |-> cache_valid]]
    ELSE LET miss == ~is_row_in_cache(idx.row)
             w == IF miss THEN fetch_page_containing(idx.row)
                  ELSE [data |-> cache_data, offset |-> cache_offset, valid |-> cache_valid]
             local_index == idx.row - w.offset
         IN  [ret |-> IF PyInRange(w.data, local_index)
                         /\ PyInRange(PyIndex(w.data, local_index), idx.col)
                      THEN Display(PyIndex(PyIndex(w.data, local_index), idx.col))
                      ELSE None,
              fetched |-> miss,
              q |-> IF miss THEN FetchQuery(idx.row) ELSE NoQuery,
              window |-> w]

\* what `last` records of an operation: its name, the index data() was given,
\* the value returned, whether a slice / a count query was issued and which,
\* whether it raised, and how a value() call relates to a value() call made
\* immediately before it
Did(op, row, col, ret, fetched, q, counted, raised, rel) ==
    [op |-> op, row |-> row, col |-> col, ret |-> ret, fetched |-> fetched,
     q |-> q, counted |-> counted, raised |-> raised, rel |-> rel]

Quiet(op) == Did(op, -1, -1, None, FALSE, NoQuery, FALSE, FALSE, "none")

Counted(op) == Did(op, -1, -1, None, FALSE, NoQuery, TRUE, FALSE, "none")

\* "same": the same cell again; "next": the row after, same column;
\* "page": row PAGE_SIZE right after row 0, same column; "nextcol": column 1
\* of the row whose column 0 was just read; otherwise "afterempty": the
\* window is valid and empty, left by a fetch that returned no rows
Unrelated(idx) ==
    IF idx.valid /\ cache_valid /\ cache_data = <<>> THEN "afterempty" ELSE "none"

Rel(idx) ==
    IF last.op # "value" \/ last.row < 0 \/ ~idx.valid THEN Unrelated(idx)
    ELSE IF idx.row = last.row /\ last.col = 0 /\ idx.col = 1 THEN "nextcol"
    ELSE IF idx.col # last.col THEN Unrelated(idx)
    ELSE IF idx.row = last.row THEN "same"
    ELSE IF idx.row = last.row + 1 THEN "next"
    ELSE IF last.row = 0 /\ idx.row = PAGE_SIZE THEN "page"
    ELSE Unrelated(idx)

\* index() hands out indices of rows 0 .. rows-1 once the model has columns
Issue(rows, cols) ==
    IF cols > 0 /\ rows > issued_rows THEN rows ELSE issued_rows

\* faulty variant: the count is recomputed but the window is kept
RefreshUnder_KeepsWindow(f) ==
    /\ total_rows' = get_total_count(f)
    /\ UNCHANGED cacheVars
    /\ issued_rows' = Issue(total_rows', columnCount)
    /\ store_changed' = FALSE

\* refresh(), run under filter set f (the one in effect when it is called)
RefreshUnder(f) ==
    /\ total_rows' = get_total_count(f)
    /\ cache_valid' = FALSE
    /\ cache_data' = <<>>
    /\ cache_offset' = -1
    /\ issued_rows' = Issue(total_rows', columnCount)
    /\ store_changed' = FALSE

refresh ==
    /\ RefreshUnder(filters)
    /\ last' = Counted("refresh")
    /\ UNCHANGED <<dbVars, PAGE_SIZE, uiVars, ctxVars>>

\* faulty variant: an empty value is stored like any other
SetFilterResult_StoresEmpty(f, column, value) ==
    [c \in DOMAIN f \cup {column} |-> IF c = column THEN value ELSE f[c]]

SetFilterResult(f, column, value) ==
    IF value = <<>>
    THEN [c \in DOMAIN f \ {column} |-> f[c]]
    ELSE [c \in DOMAIN f \cup {column} |-> IF c = column THEN value ELSE f[c]]

\* faulty variant: refresh() runs before the filter set is updated
set_filter_RefreshFirst(column, value) ==
    /\ filters' = SetFilterResult(filters, column, value)
    /\ RefreshUnder(filters)
    /\ last' = Counted("set_filter")
    /\ UNCHANGED <<dbVars, PAGE_SIZE, sort_col_name, sort_asc>>

set_filter(column, value) ==
    /\ filters' = SetFilterResult(filters, column, value)
    /\ RefreshUnder(filters')
    /\ last' = Counted("set_filter")
    /\ UNCHANGED <<dbVars, PAGE_SIZE, sort_col_name, sort_asc>>

\* faulty variant: the constraints are removed without refresh()
clear_filters_NoRefresh ==
    /\ filters' = <<>>
    /\ last' = Counted("clear_filters")
    /\ UNCHANGED <<dbVars, PAGE_SIZE, uiVars, sort_col_name, sort_asc, total_rows, cacheVars,
                   issued_rows, store_changed>>

clear_filters ==
    /\ filters' = <<>>
    /\ RefreshUnder(filters')
    /\ last' = Counted("clear_filters")
    /\ UNCHANGED <<dbVars, PAGE_SIZE, uiVars, sort_col_name, sort_asc>>

\* faulty variant: the requested direction is not taken over
sort_KeepsDirection(column, ascending) ==
    IF PyInRange(column_names, column)
    THEN /\ sort_col_name' = PyIndex(column_names, column)
         /\ sort_asc' = sort_asc
         /\ RefreshUnder(filters)
         /\ last' = Counted("sort")
         /\ UNCHANGED <<dbVars, PAGE_SIZE, uiVars, filters>>
    ELSE /\ last' = Did("sort", -1, -1, None, FALSE, NoQuery, FALSE, TRUE, "none")
         /\ UNCHANGED <<dbVars, PAGE_SIZE, uiVars, ctxVars, total_rows, cacheVars, issued_rows,
                        store_changed>>

\* sort(column, order): db.columns[column] raises IndexError before anything
\* is assigned when column is outside the list
\* faulty variant: the new sort is taken over without refresh()
sort_NoRefresh(column, ascending) ==
    IF PyInRange(column_names, column)
    THEN /\ sort_col_name' = PyIndex(column_names, column)
         /\ sort_asc' = ascending
         /\ last' = Counted("sort")
         /\ UNCHANGED <<dbVars, PAGE_SIZE, uiVars, filters, total_rows, cacheVars,
                        issued_rows, store_changed>>
    ELSE /\ last' = Did("sort", -1, -1, None, FALSE, NoQuery, FALSE, TRUE, "none")
         /\ UNCHANGED <<dbVars, PAGE_SIZE, uiVars, ctxVars, total_rows, cacheVars, issued_rows,
                        store_changed>>

sort(column, ascending) ==
    IF PyInRange(column_names, column)
    THEN /\ sort_col_name' = PyIndex(column_names, column)
         /\ sort_asc' = ascending
         /\ RefreshUnder(filters)
         /\ last' = Counted("sort")
         /\ UNCHANGED <<dbVars, PAGE_SIZE, uiVars, filters>>
    ELSE /\ last' = Did("sort", -1, -1, None, FALSE, NoQuery, FALSE, TRUE, "none")
         /\ UNCHANGED <<dbVars, PAGE_SIZE, uiVars, ctxVars, total_rows, cacheVars, issued_rows,
                        store_changed>>

\* faulty variant: a miss also recomputes the row count
DataCall_Recounts(op, idx, role) ==
    LET d == data(idx, role)
    IN  /\ cache_data' = d.window.data
        /\ cache_offset' = d.window.offset
        /\ cache_valid' = d.window.valid
        /\ total_rows' = IF d.fetched THEN get_total_count(filters) ELSE total_rows
        /\ last' = Did(op, idx.row, idx.col, d.ret, d.fetched, d.q, FALSE, FALSE,
                       IF op = "value" THEN Rel(idx) ELSE "none")
        /\ UNCHANGED <<dbVars, PAGE_SIZE, uiVars, ctxVars, issued_rows, store_changed>>

\* the effect of data(idx, role) on the cache
DataCall(op, idx, role) ==
    LET d == data(idx, role)
    IN  /\ cache_data' = d.window.data
        /\ cache_offset' = d.window.offset
        /\ cache_valid' = d.window.valid
        /\ last' = Did(op, idx.row, idx.col, d.ret, d.fetched, d.q, FALSE, FALSE,
                       IF op = "value" THEN Rel(idx) ELSE "none")
        /\ UNCHANGED <<dbVars, PAGE_SIZE, uiVars, ctxVars, total_rows, issued_rows, store_changed>>

\* value(r, c): model.data(model.index(r, c), Qt.DisplayRole)
Value(r, c) ==
    DataCall("value", index(r, c), "DisplayRole")

\* data(idx, role) on an index idx = (r, c) that index() returned at some
\* earlier time and the caller kept: it is still valid for data() whatever
\* the model's rowCount() has become
ValidIndex(r, c) == [valid |-> TRUE, row |-> r, col |-> c]

Data(r, c, role) ==
    /\ 0 <= r /\ r < issued_rows
    /\ 0 <= c /\ c < columnCount
    /\ DataCall("data", ValidIndex(r, c), role)

----------------------------------------------------------------------------
(* The store connection and the import collaborator *)

\* the database file as duckdb.connect(db_path, read_only=True) finds it:
\* holding table "roms", holding no such table, or not to be opened (no
\* such file, or locked by a writer)
DbFiles == { "ok", "no_table", "unopenable" }

\* _load_column_names: the schema of "roms", or [] when the SELECT fails
load_column_names == IF db_file = "ok" THEN Schema ELSE <<>>

\* faulty variant: the file is opened for writing and the table recreated
connect_Recreates ==
    IF db_file = "unopenable"
    THEN /\ last' = Did("connect", -1, -1, None, FALSE, NoQuery, FALSE, TRUE, "none")
         /\ UNCHANGED <<dbVars, PAGE_SIZE, uiVars, ctxVars, total_rows, cacheVars,
                        issued_rows, store_changed>>
    ELSE /\ conn' = TRUE
         /\ store' = <<>>
         /\ column_names' = load_column_names
         /\ issued_rows' = Issue(total_rows, Len(column_names'))
         /\ last' = Quiet("connect")
         /\ UNCHANGED <<db_file, PAGE_SIZE, uiVars, ctxVars, total_rows, cacheVars,
                        store_changed>>

\* connect(): duckdb.connect raises before conn is assigned when the file
\* cannot be opened; a missing table is caught in _load_column_names and
\* connect() returns normally
connect ==
    IF db_file = "unopenable"
    THEN /\ last' = Did("connect", -1, -1, None, FALSE, NoQuery, FALSE, TRUE, "none")
         /\ UNCHANGED <<dbVars, PAGE_SIZE, uiVars, ctxVars, total_rows, cacheVars,
                        issued_rows, store_changed>>
    ELSE /\ conn' = TRUE
         /\ column_names' = load_column_names
         /\ issued_rows' = Issue(total_rows, Len(column_names'))
         /\ last' = Quiet("connect")
         /\ UNCHANGED <<db_file, store, PAGE_SIZE, uiVars, ctxVars, total_rows, cacheVars,
                        store_changed>>

\* faulty variant: close() is called on the handle without testing it
disconnect_NoGuard ==
    /\ conn' = FALSE
    /\ last' = IF conn THEN Quiet("disconnect")
               ELSE Did("disconnect", -1, -1, None, FALSE, NoQuery, FALSE, TRUE, "none")
    /\ UNCHANGED <<db_file, store, column_names, PAGE_SIZE, uiVars, ctxVars, total_rows,
                   cacheVars, issued_rows, store_changed>>

disconnect ==
    /\ conn' = FALSE
    /\ last' = Quiet("disconnect")
    /\ UNCHANGED <<db_file, store, column_names, PAGE_SIZE, uiVars, ctxVars, total_rows,
                   cacheVars, issued_rows, store_changed>>

\* what the file dialog of start_import_process comes back with
DialogOutcomes == { "rejected", "accepted_no_files", "accepted_files" }

\* MainWindow.start_import_process, the slot of the import button's clicked
\* signal (a disabled button emits none): returns at once only when the
\* dialog was accepted with no file selected; otherwise it closes the read
\* handle (without refresh()), disables the import button and prepares the
\* rest of the UI, and then raises AttributeError
\* where it builds the worker from self.db_path, which MainWindow never
\* sets: no worker is created or started, no finished / error_occurred
\* signal arrives, and on_import_finished / on_import_error never run
start_import_process(dialog) ==
    /\ import_enabled
    /\ IF dialog = "accepted_no_files"
       THEN /\ last' = Quiet("start_import_process")
            /\ UNCHANGED <<dbVars, PAGE_SIZE, uiVars, ctxVars, total_rows, cacheVars, issued_rows,
                           store_changed>>
       ELSE /\ conn' = FALSE
            /\ import_enabled' = FALSE
            /\ last' = Did("start_import_process", -1, -1, None, FALSE, NoQuery, FALSE,
                           TRUE, "none")
            /\ UNCHANGED <<db_file, store, column_names, PAGE_SIZE, searchVars, workerVars,
                           sideVars, ctxVars, total_rows, cacheVars, issued_rows,
                           store_changed>>

\* the import writes a row; it runs only while the read handle is released
ImportWrite ==
    /\ ~conn
    /\ Len(store) < MaxStore
    /\ store' = Append(store, FeedRow(Len(store) + 1))
    /\ store_changed' = TRUE
    /\ last' = Quiet("import")
    /\ UNCHANGED <<db_file, conn, column_names, PAGE_SIZE, uiVars, ctxVars, total_rows,
                   cacheVars, issued_rows>>

----------------------------------------------------------------------------
(* IngestionWorker: run() on the worker thread, stop() on the caller's *)

Emit(signal) == [emitted EXCEPT ![signal] = @ + 1]

\* everything but the worker, the table and the observer
NotWorker ==
    <<db_file, conn, column_names, PAGE_SIZE, searchVars, import_enabled, sideVars,
      ctxVars, total_rows, cacheVars, issued_rows>>

\* QThread.start(): the thread enters run()
worker_start ==
    /\ w_pc = "new"
    /\ w_pc' = "run"
    /\ last' = Quiet("worker_start")
    /\ UNCHANGED <<NotWorker, store, store_changed, is_running, stop_state, emitted>>

\* run(), up to session.ingest: one status signal, then the write connection
\* is opened (it cannot be while this process holds the read handle, and
\* may fail for other reasons); on success a second status signal, on
\* failure the except branch emits error_occurred
run_open(opens) ==
    /\ w_pc = "run"
    /\ conn => ~opens
    /\ IF opens
       THEN /\ emitted' = [emitted EXCEPT !.status = @ + 2]
            /\ w_pc' = "ingest"
       ELSE /\ emitted' = [emitted EXCEPT !.status = @ + 1, !.error = @ + 1]
            /\ w_pc' = "done"
    /\ last' = Quiet("run_open")
    /\ UNCHANGED <<NotWorker, store, store_changed, is_running, stop_state>>

\* session.ingest at work: a batch is written and on_progress is called,
\* which emits progress_changed if is_running is set
ingest_progress ==
    /\ w_pc = "ingest"
    /\ emitted.progress < MaxProgress
    /\ Len(store) < MaxStore
    /\ store' = Append(store, FeedRow(Len(store) + 1))
    /\ store_changed' = TRUE
    /\ emitted' = IF is_running THEN Emit("progress") ELSE emitted
    /\ last' = Quiet("ingest_progress")
    /\ UNCHANGED <<NotWorker, w_pc, is_running, stop_state>>

\* session.ingest returns its stats, or raises into the except branch
ingest_ends(raises) ==
    /\ w_pc = "ingest"
    /\ IF raises
       THEN /\ emitted' = Emit("error")
            /\ w_pc' = "done"
       ELSE /\ emitted' = emitted
            /\ w_pc' = "check"
    /\ last' = Quiet("ingest_ends")
    /\ UNCHANGED <<NotWorker, store, store_changed, is_running, stop_state>>

\* "if self.is_running:" after the ingest
run_check ==
    /\ w_pc = "check"
    /\ w_pc' = IF is_running THEN "emit" ELSE "exit"
    /\ last' = Quiet("run_check")
    /\ UNCHANGED <<NotWorker, store, store_changed, is_running, stop_state, emitted>>

\* the body of that if: a status signal and finished(stats)
run_emit ==
    /\ w_pc = "emit"
    /\ emitted' = [emitted EXCEPT !.status = @ + 1, !.finished = @ + 1]
    /\ w_pc' = "exit"
    /\ last' = Quiet("run_emit")
    /\ UNCHANGED <<NotWorker, store, store_changed, is_running, stop_state>>

\* the with block is left and run() returns: the thread ends
run_exit ==
    /\ w_pc = "exit"
    /\ w_pc' = "done"
    /\ last' = Quiet("run_exit")
    /\ UNCHANGED <<NotWorker, store, store_changed, is_running, stop_state, emitted>>

\* stop(), first half: the flag is cleared, interruption requested, and the
\* caller blocks in wait()
stop_call ==
    /\ stop_state = "none"
    /\ is_running' = FALSE
    /\ stop_state' = "waiting"
    /\ last' = Quiet("stop_call")
    /\ UNCHANGED <<NotWorker, store, store_changed, w_pc, emitted>>

\* stop(), second half: wait() returns once the thread is not running
stop_return ==
    /\ stop_state = "waiting"
    /\ w_pc \in {"new", "done"}
    /\ stop_state' = "returned"
    /\ last' = Quiet("stop_return")
    /\ UNCHANGED <<NotWorker, store, store_changed, w_pc, is_running, emitted>>

WorkerNext ==
    \/ disconnect
    \/ worker_start
    \/ \E opens \in BOOLEAN : run_open(opens)
    \/ ingest_progress
    \/ \E raises \in BOOLEAN : ingest_ends(raises)
    \/ run_check
    \/ run_emit
    \/ run_exit
    \/ stop_call
    \/ stop_return

----------------------------------------------------------------------------

RowArgs == -1 .. MaxStore
ColArgs == -1 .. Len(Schema)

\* the table after n rows were imported
StoreOf(n) == [i \in 1..n |-> FeedRow(i)]

\* InfiniteTableModel(db) built on a DatabaseManager that is either not
\* connected (no database file yet) or connected to a table of up to
\* MaxStore rows; __init__ ends with refresh()
\* MainWindow as constructed: empty search box, timer not running, import
\* button enabled; an IngestionWorker as constructed: not started,
\* is_running set, nothing emitted
NoSignals == [progress |-> 0, status |-> 0, finished |-> 0, error |-> 0]

\* DetailPanel.__init__: no vault manager, no playable path, Play disabled.  The
\* labels are the ones clear() writes.  sought is the history of the most recent
\* call: what update_data was asked to show and what the vault held for it.
PanelNew ==
    [vault |-> "", platform_label |-> "-", launch_enabled |-> FALSE,
     current_playable_path |-> <<>>, sought |-> [op |-> "init"]]

\* ensure_structure has not been called.
NotEnsured == [status |-> "none"]

\* Launcher.launch has not been called.
LaunchIdle == [op |-> "idle"]

FrontInit ==
    /\ search_text = <<>>
    /\ search_timer = -1
    /\ burst_keys = 0
    /\ import_enabled = TRUE
    /\ w_pc = "new"
    /\ is_running = TRUE
    /\ stop_state = "none"
    /\ emitted = NoSignals

SideInit ==
    /\ panel = PanelNew
    /\ folders = {}
    /\ ensured = NotEnsured
    /\ launcher = LaunchIdle

UiInit ==
    /\ FrontInit
    /\ SideInit

ModelInit ==
    /\ db_file = "ok"
    /\ \/ /\ conn = FALSE
          /\ store = <<>>
          /\ column_names = <<>>
       \/ /\ conn = TRUE
          /\ store \in { StoreOf(n) : n \in 0..MaxStore }
          /\ column_names = Schema
    /\ PAGE_SIZE = SmallPage
    /\ filters = <<>>
    /\ sort_col_name = ""
    /\ sort_asc = TRUE
    /\ total_rows = get_total_count(filters)
    /\ cache_data = <<>>
    /\ cache_offset = -1
    /\ cache_valid = FALSE
    /\ issued_rows = total_rows
    /\ store_changed = FALSE
    /\ last = Counted("init")

Init ==
    /\ ModelInit
    /\ UiInit

Next ==
    \/ connect
    \/ disconnect
    \/ ImportWrite
    \/ \E dialog \in DialogOutcomes : start_import_process(dialog)
    \/ refresh
    \/ \E column \in FilterColumns, value \in Patterns :
          set_filter(column, value) /\ UNCHANGED uiVars
    \/ clear_filters
    \/ \E column \in ColArgs, ascending \in BOOLEAN : sort(column, ascending)
    \/ \E r \in RowArgs, c \in ColArgs : Value(r, c)
    \/ \E r \in RowArgs, c \in ColArgs, role \in Roles : Data(r, c, role)

Spec == Init /\ [][Next]_vars

WorkerSpec == Init /\ [][WorkerNext]_vars

\* A browsing session that filters on two columns of the table, with search
\* texts that differ in case and one that holds a LIKE metacharacter
SearchColumns == { "title", "platform" }
SearchTexts == { <<>>, <<"a">>, <<"B">>, <<"_">> }

FilterNext ==
    \/ \E column \in SearchColumns, value \in SearchTexts :
          set_filter(column, value) /\ UNCHANGED uiVars
    \/ clear_filters
    \/ \E r \in RowArgs, c \in ColArgs : Value(r, c)

FilterSpec == Init /\ [][FilterNext]_vars

----------------------------------------------------------------------------
(* MainWindow: the debounced search box *)

\* the 300 ms interval of search_timer, in ticks of 150 ms
TimerTicks == 2

\* what the user may have in the search box (" " is white space)
TypedTexts == { <<>>, <<"a">>, <<" ", "a">>, <<"B", " ">>, <<" ">>, <<"_">> }

\* str.strip()
RECURSIVE LStrip(_)
LStrip(s) == IF s # <<>> /\ Head(s) = " " THEN LStrip(Tail(s)) ELSE s

RECURSIVE RStrip(_)
RStrip(s) ==
    IF s # <<>> /\ s[Len(s)] = " " THEN RStrip(SubSeq(s, 1, Len(s) - 1)) ELSE s

Strip(s) == RStrip(LStrip(s))

\* faulty variant: a running timer is left to run on
on_search_text_changed_NoRestart(text) ==
    /\ text # search_text
    /\ (IF search_timer = -1 THEN 1 ELSE burst_keys + 1) <= MaxKeys
    /\ search_text' = text
    /\ search_timer' = IF search_timer = -1 THEN TimerTicks ELSE search_timer
    /\ burst_keys' = IF search_timer = -1 THEN 1 ELSE burst_keys + 1
    /\ last' = Quiet("text_changed")
    /\ UNCHANGED <<dbVars, PAGE_SIZE, import_enabled, workerVars, sideVars, ctxVars,
                   total_rows, cacheVars, issued_rows, store_changed>>

\* a keystroke changes the text: textChanged -> _on_search_text_changed ->
\* search_timer.start(), which restarts a running timer
on_search_text_changed(text) ==
    /\ text # search_text
    /\ (IF search_timer = -1 THEN 1 ELSE burst_keys + 1) <= MaxKeys
    /\ search_text' = text
    /\ search_timer' = TimerTicks
    /\ burst_keys' = IF search_timer = -1 THEN 1 ELSE burst_keys + 1
    /\ last' = Quiet("text_changed")
    /\ UNCHANGED <<dbVars, PAGE_SIZE, import_enabled, workerVars, sideVars, ctxVars,
                   total_rows, cacheVars, issued_rows, store_changed>>

\* 150 ms pass while the timer runs
Tick ==
    /\ search_timer > 0
    /\ search_timer' = search_timer - 1
    /\ last' = Quiet("tick")
    /\ UNCHANGED <<dbVars, PAGE_SIZE, search_text, burst_keys, import_enabled, workerVars,
                   sideVars, ctxVars, total_rows, cacheVars, issued_rows, store_changed>>

\* the single-shot timer expires: timeout -> _apply_search
apply_search ==
    /\ search_timer = 0
    /\ search_timer' = -1
    /\ set_filter("title", Strip(search_text))
    /\ UNCHANGED <<search_text, burst_keys, import_enabled, workerVars, sideVars>>

SearchNext ==
    \/ \E text \in TypedTexts : on_search_text_changed(text)
    \/ Tick
    \/ apply_search

\* time passes, and the event loop delivers the timeout of an expired timer
SearchSpec ==
    Init /\ [][SearchNext]_vars /\ WF_vars(Tick) /\ WF_vars(apply_search)

\* Calls made on the DatabaseManager itself, connected or not
SliceArgs == 0 .. MaxStore
SliceFilters == { <<>>, [title |-> <<"a">>], [bogus |-> <<"a">>], [title |-> <<>>] }
SliceSorts == { "", "title", "platform", "bogus" }

Rows(rows) == [t |-> "rows", v |-> rows]

\* db.fetch_data(limit, offset, filters, sort_col, sort_asc)
FetchSlice(limit, offset, f, sort_col, asc) ==
    /\ last' = Did("fetch_data", -1, -1, Rows(fetch_data(limit, offset, f, sort_col, asc)),
                   TRUE, [limit |-> limit, offset |-> offset, filters |-> f,
                          sort_col |-> sort_col, sort_asc |-> asc],
                   FALSE, FALSE, "none")
    /\ UNCHANGED <<dbVars, PAGE_SIZE, uiVars, ctxVars, total_rows, cacheVars, issued_rows,
                   store_changed>>

\* db.get_total_count(filters)
TotalCount(f) ==
    /\ last' = Did("get_total_count", -1, -1, [t |-> "int", v |-> get_total_count(f)],
                   FALSE, [filters |-> f], TRUE, FALSE, "none")
    /\ UNCHANGED <<dbVars, PAGE_SIZE, uiVars, ctxVars, total_rows, cacheVars, issued_rows,
                   store_changed>>

DistinctColumns == { "title", "platform", "bogus" }

\* db.get_distinct_values(column)
DistinctValues(column) ==
    /\ last' = Did("get_distinct_values", -1, -1, Rows(get_distinct_values(column)),
                   FALSE, [column |-> column], FALSE, FALSE, "none")
    /\ UNCHANGED <<dbVars, PAGE_SIZE, uiVars, ctxVars, total_rows, cacheVars, issued_rows,
                   store_changed>>

\* a table in which a title occurs on two rows
RepeatStore ==
    << <<Text(<<"B">>), Text(<<"a">>)>>, <<Text(<<"A", "b">>), NULL>>,
       <<Text(<<"B">>), NULL>> >>

EngineStores == { StoreOf(n) : n \in 0..MaxStore } \cup { RepeatStore }

\* DatabaseManager(db_path) as constructed: no handle, no column names; the
\* file at db_path is in any of its states; the cache built over it has
\* counted 0 rows
EngineInit ==
    /\ db_file \in DbFiles
    /\ store \in IF db_file = "ok" THEN EngineStores ELSE { <<>> }
    /\ conn = FALSE
    /\ column_names = <<>>
    /\ UiInit
    /\ PAGE_SIZE = SmallPage
    /\ filters = <<>>
    /\ sort_col_name = ""
    /\ sort_asc = TRUE
    /\ total_rows = 0
    /\ cache_data = <<>>
    /\ cache_offset = -1
    /\ cache_valid = FALSE
    /\ issued_rows = 0
    /\ store_changed = FALSE
    /\ last = Counted("init")

EngineNext ==
    \/ connect
    \/ disconnect
    \/ \E f \in SliceFilters : TotalCount(f)
    \/ \E column \in DistinctColumns : DistinctValues(column)
    \/ \E limit \in SliceArgs, offset \in SliceArgs, f \in SliceFilters,
          sort_col \in SliceSorts, asc \in BOOLEAN :
            FetchSlice(limit, offset, f, sort_col, asc)

EngineSpec == EngineInit /\ [][EngineNext]_vars

\* the engine called directly and through the cache while the handle comes
\* and goes
HandleNext ==
    \/ connect
    \/ disconnect
    \/ ImportWrite
    \/ \E dialog \in DialogOutcomes : start_import_process(dialog)
    \/ refresh
    \/ \E r \in RowArgs, c \in ColArgs : Value(r, c)
    \/ \E f \in SliceFilters : TotalCount(f)
    \/ \E column \in DistinctColumns : DistinctValues(column)
    \/ \E offset \in SliceArgs, f \in SliceFilters :
          FetchSlice(PAGE_SIZE, offset, f, sort_col_name, sort_asc)

HandleSpec == Init /\ [][HandleNext]_vars

----------------------------------------------------------------------------
(* VaultManager: the folder structure of the vault.  A path is the sequence
   of its components; folders holds the directories that exist. *)

\* the vault paths a caller passes; "" is the unset path
VaultPaths == {"", "v"}

Range(seq) == { seq[i] : i \in 1..Len(seq) }

\* ["0-9"] + [chr(i) for i in range(ord('A'), ord('Z') + 1)]
prefixes ==
    <<"0-9", "A", "B", "C", "D", "E", "F", "G", "H", "I", "J", "K", "L", "M",
      "N", "O", "P", "Q", "R", "S", "T", "U", "V", "W", "X", "Y", "Z">>

\* self.root and self.games_root of VaultManager(root_path), root_path set
Root(root_path) == <<root_path>>
games_root(root_path) == <<root_path, "Games">>

is_valid(root_path) ==
    /\ root_path # ""
    /\ Root(root_path) \in folders
    /\ games_root(root_path) \in folders

\* faulty variant: Games is reported (and made) whether or not it exists
Created_AlwaysGames(root_path) ==
    <<games_root(root_path)>>
    \o [i \in 1..Len(SelectSeq(prefixes,
                         LAMBDA p : games_root(root_path) \o <<p>> \notin folders))
          |-> games_root(root_path) \o
                <<SelectSeq(prefixes,
                    LAMBDA p : games_root(root_path) \o <<p>> \notin folders)[i]>>]

\* the list ensure_structure builds: Games if it is missing, then every missing
\* prefix folder in the order of prefixes
Created(root_path) ==
    (IF games_root(root_path) \in folders THEN <<>> ELSE <<games_root(root_path)>>)
    \o [i \in 1..Len(SelectSeq(prefixes,
                         LAMBDA p : games_root(root_path) \o <<p>> \notin folders))
          |-> games_root(root_path) \o
                <<SelectSeq(prefixes,
                    LAMBDA p : games_root(root_path) \o <<p>> \notin folders)[i]>>]

\* the call before this one was ensure_structure on the same path, it returned,
\* and no folder has come or gone since (the record of a call keeps this, and how
\* many folders that earlier call created)
CalledBefore(root_path) ==
    /\ ensured.status = "returned"
    /\ ensured.root_path = root_path
    /\ ensured.after = folders

\* VaultManager(root_path).ensure_structure().  mkdir(parents=True) on Games
\* makes the vault root too when that is missing.
ensure_structure(root_path) ==
    /\ IF root_path = ""
       THEN /\ ensured' = [status |-> "ValueError", root_path |-> root_path,
                           created |-> <<>>, before |-> folders, after |-> folders,
                           again |-> FALSE, earlier |-> 0]
            /\ UNCHANGED folders
       ELSE /\ folders' = folders \cup Range(Created(root_path))
                          \cup (IF games_root(root_path) \in folders THEN {}
                                ELSE {Root(root_path)})
            /\ ensured' = [status |-> "returned", root_path |-> root_path,
                           created |-> Created(root_path), before |-> folders,
                           after |-> folders', again |-> CalledBefore(root_path),
                           earlier |-> IF CalledBefore(root_path)
                                       THEN Len(ensured.created) ELSE 0]
    /\ UNCHANGED <<dbVars, PAGE_SIZE, searchVars, import_enabled, workerVars, panel,
                   launcher, ctxVars, total_rows, cacheVars, issued_rows, store_changed,
                   last>>

\* SettingsDialog._on_fix_structure: nothing happens with an empty path box, else
\* ensure_structure runs on the path typed there
on_fix_structure(path) ==
    /\ path # ""
    /\ ensure_structure(path)

\* the file system outside the program: an empty prefix folder is removed
rmdir(prefix) ==
    /\ \E f \in folders :
          /\ Len(f) = 3
          /\ f[3] = prefix
          /\ \A g \in folders : Len(g) > 3 => SubSeq(g, 1, 3) # f
          /\ folders' = folders \ {f}
    /\ UNCHANGED <<dbVars, PAGE_SIZE, searchVars, import_enabled, workerVars, panel,
                   ensured, launcher, ctxVars, total_rows, cacheVars, issued_rows,
                   store_changed, last>>

----------------------------------------------------------------------------
(* VaultManager: finding a game's folder and its playable file.  Titles and
   folder names are sequences of characters. *)

\* the game folders of the modelled vault, by folder name: how the name is spelt,
\* the prefix folder it lives in, and the files under MEDIA/Gamefiles/<platform>.
\* No prefix folder holds two games, so iterdir() order decides nothing.
GameLibrary ==
    [Bd |-> [spelling |-> <<"B", "d">>, prefix |-> "B",
             media |-> [C64 |-> { [name |-> "B.d64", stem |-> <<"B">>, suffix |-> ".d64"],
                                  [name |-> "a.D64", stem |-> <<"a">>, suffix |-> ".D64"],
                                  [name |-> "A.txt", stem |-> <<"A">>, suffix |-> ".txt"] }]],
     Ar |-> [spelling |-> <<"A", "r">>, prefix |-> "A",
             media |-> [Amiga |-> { [name |-> "a.adf", stem |-> <<"a">>, suffix |-> ".adf"] },
                        C64 |-> { [name |-> "A.txt", stem |-> <<"A">>, suffix |-> ".txt"] }]]]

GameNames == DOMAIN GameLibrary

GameFolder(root_path, name) ==
    games_root(root_path) \o <<GameLibrary[name].prefix, name>>

PLATFORM_MAPPING ==
    [x \in {"Commodore 64", "Commodore Amiga"} |->
        IF x = "Commodore 64" THEN "C64" ELSE "Amiga"]

playable_extensions ==
    {".adf", ".d64", ".t64", ".tap", ".ipf", ".zip", ".7z", ".exe", ".com", ".bat",
     ".iso", ".cue"}

\* str.lower() and str.upper() on the characters titles are written in
LowerText(t) == [i \in 1..Len(t) |-> Lower(t[i])]
LowerSuffix(sfx) == IF sfx = ".D64" THEN ".d64" ELSE sfx
UpperChar(ch) ==
    CASE ch = "a" -> "A" [] ch = "b" -> "B" [] ch = "d" -> "D" [] ch = "e" -> "E"
      [] ch = "h" -> "H" [] ch = "r" -> "R" [] ch = "t" -> "T" [] OTHER -> ch
isdigit(ch) == ch \in {"0", "1", "2", "3", "4", "5", "6", "7", "8", "9"}
isalpha(ch) == ch \in Range(prefixes) \ {"0-9"}

startswith(t, pre) == Len(t) >= Len(pre) /\ SubSeq(t, 1, Len(pre)) = pre

\* a in b, on texts
IsInfix(a, b) == \E i \in 0..(Len(b) - Len(a)) : SubSeq(b, i + 1, i + Len(a)) = a

\* what a vault lookup comes back with: a path, nothing, or an exception
Found(path) == [raised |-> "", path |-> path]
NotFound == [raised |-> "", path |-> <<>>]
Raises(error) == [raised |-> error, path |-> <<>>]

\* VaultManager._locate_game_folder(title): clean_title[0] has no range check, so a
\* title that is only the article raises IndexError
locate_game_folder(root_path, title) ==
    IF title = <<>> THEN NotFound
    ELSE LET clean_title == IF startswith(LowerText(title), <<"t", "h", "e", " ">>)
                            THEN SubSeq(title, 5, Len(title)) ELSE title
         IN  IF clean_title = <<>> THEN Raises("IndexError")
             ELSE LET first_char == UpperChar(clean_title[1])
                      bucket == IF isdigit(first_char) THEN "0-9"
                                ELSE IF isalpha(first_char) THEN first_char
                                ELSE "0-9"
                      bucket_path == games_root(root_path) \o <<bucket>>
                      matching ==
                          { name \in GameNames :
                              /\ GameFolder(root_path, name) \in folders
                              /\ GameLibrary[name].prefix = bucket
                              /\ IsInfix(LowerText(title),
                                         LowerText(GameLibrary[name].spelling)) }
                  IN  IF bucket_path \notin folders \/ matching = {} THEN NotFound
                      ELSE Found(GameFolder(root_path, CHOOSE name \in matching : TRUE))

\* the playable files of a media folder, sorted on the lower-cased name
Candidates(files) ==
    { f \in files : LowerSuffix(f.suffix) \in playable_extensions }

FirstCandidate(files) ==
    CHOOSE f \in Candidates(files) :
        \A g \in Candidates(files) \ {f} : TextLess(LowerText(f.stem), LowerText(g.stem))

\* VaultManager.find_playable_media(title, system)
find_playable_media(root_path, title, system) ==
    IF ~is_valid(root_path) THEN NotFound
    ELSE LET game_folder == locate_game_folder(root_path, title)
             target_platform_dir ==
                 IF system \in DOMAIN PLATFORM_MAPPING THEN PLATFORM_MAPPING[system]
                 ELSE system
             game == game_folder.path[Len(game_folder.path)]
         IN  IF game_folder.raised # "" THEN game_folder
             ELSE IF game_folder.path = <<>> THEN NotFound
             ELSE IF target_platform_dir \notin DOMAIN GameLibrary[game].media
                  THEN NotFound
             ELSE IF Candidates(GameLibrary[game].media[target_platform_dir]) = {}
                  THEN NotFound
             ELSE Found(game_folder.path
                        \o <<"MEDIA", "Gamefiles", target_platform_dir,
                             FirstCandidate(GameLibrary[game].media[target_platform_dir]).name>>)

\* VaultManager.find_game_assets(title), as far as the panel depends on it: it
\* comes back or it raises
find_game_assets(root_path, title) ==
    IF ~is_valid(root_path) THEN NotFound
    ELSE locate_game_folder(root_path, title)

----------------------------------------------------------------------------
(* DetailPanel *)

\* dict.get(key, default)
Get(row_data, key, default) == IF key \in DOMAIN row_data THEN row_data[key] ELSE default

\* os.path.splitext(rom_name)[0]: the name up to its last dot, a leading dot kept
RECURSIVE LastDot(_)
LastDot(t) ==
    IF t = <<>> THEN 0
    ELSE IF t[Len(t)] = "." THEN Len(t)
    ELSE LastDot(SubSeq(t, 1, Len(t) - 1))

splitext_stem(t) == IF LastDot(t) > 1 THEN SubSeq(t, 1, LastDot(t) - 1) ELSE t

\* the title both _load_cover and _check_playable_media look up
LookupTitle(row_data) ==
    IF Get(row_data, "title", <<>>) = <<>> /\ Get(row_data, "rom_name", <<>>) # <<>>
    THEN splitext_stem(row_data.rom_name)
    ELSE Get(row_data, "title", <<>>)

\* the rows handed to update_data: {} and records of a selected row, whole or as
\* far as _on_row_selected has filled them in when it calls
PanelData ==
    { <<>>,
      [title |-> <<"B", "d">>],
      [title |-> <<"B", "d">>, platform |-> "Commodore 64"],
      [title |-> <<"B", "d">>, platform |-> "Commodore Amiga"],
      [title |-> <<"a", "r">>, platform |-> "Commodore Amiga"],
      [title |-> <<"a", "r">>, platform |-> "Commodore 64"],
      [title |-> <<>>, platform |-> "C64", rom_name |-> <<"B", "d", ".", "d">>],
      [title |-> <<"t", "h", "e", " ", "B", "d">>, platform |-> "Commodore 64"],
      [title |-> <<"t", "h", "e", " ">>, platform |-> "Commodore 64"],
      [title |-> <<"1">>, platform |-> "Commodore 64"] }

PanelFrame ==
    <<dbVars, PAGE_SIZE, searchVars, import_enabled, workerVars, folders, ensured,
      launcher, ctxVars, total_rows, cacheVars, issued_rows, store_changed, last>>

\* DetailPanel.set_vault_path(path)
set_vault_path(path) ==
    /\ panel' = [panel EXCEPT !.vault = path]
    /\ UNCHANGED PanelFrame

\* what clear() leaves in the panel
Cleared(sought) ==
    [panel EXCEPT !.platform_label = "-", !.launch_enabled = FALSE,
                  !.current_playable_path = <<>>, !.sought = sought]

\* DetailPanel.clear()
clear ==
    /\ panel' = Cleared([op |-> "clear"])
    /\ UNCHANGED PanelFrame

\* the record of an update_data call: the row passed, and the playable file the
\* vault holds for it when the call is made (<<>>: none, or the lookup raises)
Sought(row_data) ==
    [op |-> "update_data", row_data |-> row_data,
     media |-> find_playable_media(panel.vault, LookupTitle(row_data),
                                   Get(row_data, "platform", Get(row_data, "system", ""))).path,
     raised |-> IF is_valid(panel.vault)
                THEN find_game_assets(panel.vault, LookupTitle(row_data)).raised
                ELSE ""]

\* DetailPanel.update_data(data): the labels, then _load_cover, then
\* _check_playable_media.  An exception out of _load_cover ends the call there.
update_data(row_data) ==
    /\ IF DOMAIN row_data = {}
       THEN panel' = Cleared(Sought(row_data))
       ELSE IF /\ is_valid(panel.vault)
               /\ find_game_assets(panel.vault, LookupTitle(row_data)).raised # ""
       THEN panel' = [panel EXCEPT !.platform_label = Get(row_data, "platform", "-"),
                                   !.sought = Sought(row_data)]
       ELSE LET media_path ==
                    find_playable_media(panel.vault, LookupTitle(row_data),
                        Get(row_data, "platform", Get(row_data, "system", ""))).path
            IN  panel' = [panel EXCEPT
                             !.platform_label = Get(row_data, "platform", "-"),
                             !.launch_enabled = (media_path # <<>>),
                             !.current_playable_path = media_path,
                             !.sought = Sought(row_data)]
    /\ UNCHANGED PanelFrame

\* a vault as it can stand on disk: nothing, the bare root, or Games with some of
\* the prefix folders and, inside those, some of the game folders
VaultStates ==
    { {}, {Root("v")} }
    \cup { {Root("v"), games_root("v")}
           \cup { games_root("v") \o <<p>> : p \in P }
           \cup (IF rest THEN { games_root("v") \o <<prefixes[i]>> : i \in 4..Len(prefixes) }
                 ELSE {})
           \cup { GameFolder("v", name) : name \in G } :
           P \in SUBSET {"0-9", "A", "B"}, rest \in BOOLEAN,
           G \in SUBSET GameNames }

VaultInit ==
    /\ ModelInit
    /\ conn = FALSE
    /\ FrontInit
    /\ panel = PanelNew
    /\ folders \in { F \in VaultStates :
                       \A name \in GameNames :
                           GameFolder("v", name) \in F =>
                               games_root("v") \o <<GameLibrary[name].prefix>> \in F }
    /\ ensured = NotEnsured
    /\ launcher = LaunchIdle

VaultNext ==
    \/ \E path \in VaultPaths : ensure_structure(path)
    \/ \E path \in VaultPaths : on_fix_structure(path)
    \/ \E prefix \in {"0-9", "A", "B"} : rmdir(prefix)
    \/ \E path \in VaultPaths : set_vault_path(path)
    \/ \E row_data \in PanelData : update_data(row_data)
    \/ clear

VaultSpec == VaultInit /\ [][VaultNext]_vars

----------------------------------------------------------------------------
(* The view the cache is meant to present *)

\* the rows of the store under the filters and sort in effect, in order
CurrentView == Ordered(filters, sort_col_name, sort_asc)

\* the store rows the filter set f selects, counted one by one
MatchCount(f) == Cardinality({ i \in 1..Len(store) : RowMatches(store[i], f) })

\* a slice or count query issued now would fail
QueryWouldFail ==
    ~conn \/ db_file # "ok" \/ \E col \in DOMAIN filters : col \notin SchemaColumns

ValueServed == last.op = "value" /\ last.row >= 0

----------------------------------------------------------------------------
(* Claims *)

\* C1: Virtual-table semantics. If the store is unchanged since the last
\* refresh() and no query fails, value(i, c) for 0 <= i < rowCount() and
\* 0 <= c < columnCount() returns the (displayed) value at column c of the
\* i-th row of the store under the current filters and sort, never absent,
\* whatever was requested before.
C1_VirtualTable ==
    (ValueServed /\ ~store_changed /\ (last.fetched => ~QueryWouldFail))
        => /\ last.row < Len(CurrentView)
           /\ last.ret # None
           /\ last.ret = Display(CurrentView[last.row + 1][last.col + 1])

\* C1 witness: a row of the second page served from the window, under a
\* sort and a filter, with the store unchanged since the refresh.
C1_Witness ==
    /\ ValueServed /\ ~store_changed /\ conn
    /\ last.row >= PAGE_SIZE /\ ~last.fetched
    /\ sort_col_name # "" /\ ~sort_asc
    /\ last.ret = Display(CurrentView[last.row + 1][last.col + 1])
    /\ CurrentView # store

\* a value() call that repeats, follows by one row, or jumps from row 0 to
\* row pageSize after, the value() call made immediately before it
Repeats(s) == s.op = "value" /\ s.row >= 0 /\ s.rel = "same"

NextRowSamePage(s) ==
    s.op = "value" /\ s.row >= 0 /\ s.rel = "next" /\ s.row % PAGE_SIZE # 0

FirstRowThenNextPage(s) == s.op = "value" /\ s.row >= 0 /\ s.rel = "page"

\* C2 as stated: value(rowIndex, c) twice in a row, for a valid rowIndex and
\* with no mutation in between, returns the same value both times and the
\* second call does not trigger a fetch.
C2_AsStated ==
    [][Repeats(last') => (last'.ret = last.ret /\ ~last'.fetched)]_vars

\* C2 amended: value(rowIndex, c) twice in a row, for a valid rowIndex and
\* with no mutation in between, returns the same value both times; the
\* second call triggers no fetch if the first call returned a value, and
\* fetches again if the first call returned absent (its fetch failed or came
\* back without the row).
C2_IdempotentRead ==
    [][Repeats(last') => /\ last'.ret = last.ret
                         /\ last'.fetched <=> (last.ret = None)]_vars

\* C2 witness: the second of two identical calls was served from the window.
C2_Witness == Repeats(last) /\ ~last.fetched /\ last.ret # None

C4_AsStated ==
    (last.op = "set_filter" /\ DOMAIN filters \subseteq SchemaColumns)
        => total_rows = MatchCount(filters)

\* C4 amended: after setFilter(col, v), rowCount() equals the number of
\* store rows matching the new FilterSet if the count query succeeds and 0
\* if it fails; the previously valid window is discarded; and the very next
\* value() call for an in-range index triggers a fetch even if that index
\* lay inside the old window's range.
C4_FilterInvalidation ==
    [][/\ last'.op = "set_filter"
            => /\ total_rows' = IF QueryWouldFail' THEN 0 ELSE MatchCount(filters)'
               /\ ~cache_valid' /\ cache_data' = <<>>
       /\ (last.op = "set_filter" /\ last'.op = "value" /\ last'.row >= 0)
            => last'.fetched]_vars

\* C4 witness: right after a setFilter that left fewer rows than the store
\* holds, a value() call for a row that the window before held has fetched.
C4_Witness ==
    /\ ValueServed /\ last.fetched /\ last.ret # None
    /\ DOMAIN filters # {} /\ 0 < total_rows /\ total_rows < Len(store)
    /\ total_rows = MatchCount(filters)

\* C5: Out-of-range safety. In every cache state value(rowIndex, columnIndex)
\* returns absent and does not fault when rowIndex is outside
\* [0, rowCount()) or columnIndex is outside [0, columnCount()), negative
\* indices included.
\* (stated by contraposition: a value() step that returned a value, or
\* raised, is not the step of any out-of-range call)
C5_OutOfRange ==
    [][(last'.op = "value" /\ (last'.ret # None \/ last'.raised))
          => \A r \in RowArgs, c \in ColArgs :
                (r < 0 \/ r >= total_rows \/ c < 0 \/ c >= columnCount)
                    => ~Value(r, c)]_vars

\* C5 witness: an out-of-range value() call returned absent while a valid
\* window with rows was held and the model had rows and columns.
C5_Witness ==
    /\ last.op = "value" /\ last.row < 0 /\ last.ret = None
    /\ total_rows > 0 /\ columnCount > 0 /\ cache_valid /\ cache_data # <<>>

\* C6: Stale-index re-validation. value() checks rowIndex against the
\* current rowCount() before touching the window, so a call with an index
\* obtained earlier whose row is now >= rowCount() returns absent without
\* issuing a fetch and without replacing the window.
C6_StaleIndex ==
    (last.op = "data" /\ last.row >= total_rows)
        => (last.ret = None /\ ~last.fetched)

\* C7: Degrade-to-empty. When the store query fails, totalCount returns 0
\* and fetchSlice returns an empty sequence, nothing is raised, and
\* rowCount() after a refresh() performed under that failure is 0.
C7_DegradeToEmpty ==
    QueryWouldFail
        => /\ get_total_count(filters) = 0
           /\ fetch_data(PAGE_SIZE, 0, filters, sort_col_name, sort_asc) = <<>>
           /\ last.counted => (total_rows = 0 /\ ~last.raised)
           /\ last.fetched => (cache_data = <<>> /\ last.ret = None /\ ~last.raised)

\* C7 witness: a refresh() ran while the store, holding rows, could not be
\* queried.
C7_Witness ==
    /\ QueryWouldFail /\ last.op = "refresh" /\ last.counted
    /\ Len(store) > 0 /\ total_rows = 0

Refreshed(s) ==
    \/ s.op \in {"init", "refresh", "set_filter", "clear_filters"}
    \/ (s.op = "sort" /\ ~s.raised)

\* C11: The window is invalid and empty immediately after construction and
\* immediately after every setFilter, clearFilters, setSort (that returns)
\* and refresh; the next value() call for an in-range index repopulates it:
\* it issues exactly one fetch, valid becomes true and the window holds the
\* requested row.
C11_InvalidAfterRefresh ==
    [][/\ Refreshed(last') => (~cache_valid' /\ cache_data' = <<>> /\ cache_offset' = -1)
       /\ (Refreshed(last) /\ last'.op = "value" /\ last'.row >= 0)
            => /\ last'.fetched /\ last'.q = FetchQuery(last'.row)
               /\ cache_valid'
               /\ cache_offset' <= last'.row
               /\ last'.row < cache_offset' + Len(cache_data')
               /\ last'.ret # None]_vars

\* C11 witness: a setSort has just discarded the window of a model that has
\* rows on two pages.
C11_Witness ==
    /\ last.op = "sort" /\ ~last.raised /\ sort_col_name = "platform"
    /\ ~cache_valid /\ cache_data = <<>> /\ total_rows > PAGE_SIZE

\* C12: rowCount() returns the count computed by the most recent refresh():
\* only an operation that runs refresh() issues a count query or changes the
\* cached count; value() and data(), hit or miss, do neither, even when the
\* store's contents changed in between.
C12_CountOnlyOnRefresh ==
    [][/\ last'.counted => (Refreshed(last') /\ rowCount' = get_total_count(filters)')
       /\ ~last'.counted => rowCount' = rowCount
       /\ last'.op \in {"value", "data"} => ~last'.counted]_vars

\* C12 witness: value() missed and fetched after the store had grown, and
\* rowCount() is still the count of the refresh before the growth.
C12_Witness ==
    /\ ValueServed /\ last.fetched /\ last.ret # None
    /\ store_changed /\ conn /\ filters = <<>>
    /\ 0 < total_rows /\ total_rows < Len(store)

C15_NoEmptyPattern ==
    [][/\ \A c \in DOMAIN filters' : filters'[c] # <<>>
       /\ last'.op = "set_filter"
            => \A column \in SearchColumns, value \in SearchTexts :
                  set_filter(column, value)
                    => /\ \A c \in DOMAIN filters \ {column} :
                              c \in DOMAIN filters' /\ filters'[c] = filters[c]
                       /\ DOMAIN filters' \subseteq DOMAIN filters \cup {column}
                       /\ IF value = <<>>
                          THEN column \notin DOMAIN filters'
                          ELSE column \in DOMAIN filters' /\ filters'[column] = value]_vars

\* C15 witness: a setFilter has left constraints on two columns, with
\* different patterns.
C15_Witness ==
    /\ last.op = "set_filter" /\ DOMAIN filters = {"title", "platform"}
    /\ filters["title"] = <<"B">> /\ filters["platform"] = <<"a">>

\* v occurs in the cell's text as a substring, letter case ignored
ContainsFolded(cell, v) ==
    /\ cell.t = "text"
    /\ \E i \in 0 .. (Len(cell.v) - Len(v)) :
          \A j \in 1 .. Len(v) : Lower(cell.v[i + j]) = Lower(v[j])

\* C18: Every row served by value() after setFilter(col, v) satisfies the
\* predicate: its value in column col contains v as a case-insensitive
\* substring, and the constraints on several columns are ANDed.
C18_ServedRowsMatch ==
    (ValueServed /\ last.ret # None /\ is_row_in_cache(last.row))
        => \A col \in DOMAIN filters :
              ContainsFolded(cache_data[last.row - cache_offset + 1][ColumnPos(col)],
                             filters[col])

\* C16 as stated: after clearFilters() the FilterSet is empty, the window is
\* invalid, and rowCount() equals the unfiltered total row count of the
\* store.
C16_AsStated ==
    last.op = "clear_filters"
        => (filters = <<>> /\ ~cache_valid /\ total_rows = Len(store))

\* C16 amended: after clearFilters() the FilterSet is empty, the SortSpec is
\* unchanged, the window is invalid and empty, and rowCount() equals the
\* unfiltered total row count of the store if the count query succeeds and
\* 0 if it fails.
C16_ClearFilters ==
    [][last'.op = "clear_filters"
          => /\ filters' = <<>>
             /\ sort_col_name' = sort_col_name /\ sort_asc' = sort_asc
             /\ ~cache_valid' /\ cache_data' = <<>>
             /\ total_rows' = IF conn' THEN Len(store') ELSE 0]_vars

\* C16 witness: clearFilters() ran on a sorted model and rowCount() is the
\* size of the store, which holds rows.
C16_Witness ==
    /\ last.op = "clear_filters" /\ sort_col_name = "title" /\ ~sort_asc
    /\ conn /\ total_rows = Len(store) /\ total_rows > 1

\* C17 as stated: after setSort(column, ascending) the FilterSet and the
\* rowCount() value are unchanged.
C17_AsStated ==
    [][(last'.op = "sort" /\ ~last'.raised)
          => (filters' = filters /\ total_rows' = total_rows)]_vars

\* C17 amended: after setSort(column, ascending), for a column index in
\* [0, columnCount()), the SortSpec is exactly the pair (name of that
\* column, direction) replacing any previous one, the FilterSet is
\* unchanged, refresh() has run (the window is invalid and rowCount() is
\* recomputed under the unchanged FilterSet: the number of matching rows if
\* the count query succeeds, 0 if it fails), and the next fetch carries the
\* new sort.
C17_SetSort ==
    [][/\ last'.op = "sort"
            => \A column \in 0 .. (Len(column_names) - 1), ascending \in BOOLEAN :
                  sort(column, ascending)
                    => /\ sort_col_name' = column_names[column + 1]
                       /\ sort_asc' = ascending
                       /\ filters' = filters
                       /\ ~cache_valid' /\ cache_data' = <<>>
                       /\ total_rows' = IF QueryWouldFail THEN 0 ELSE MatchCount(filters)
       /\ (last.op = "sort" /\ ~last.raised /\ last'.fetched)
            => (last'.q.sort_col = sort_col_name /\ last'.q.sort_asc = sort_asc)]_vars

\* C17 witness: a descending sort on the second column was set on a
\* filtered model that has rows.
C17_Witness ==
    /\ last.op = "sort" /\ ~last.raised
    /\ sort_col_name = "platform" /\ ~sort_asc
    /\ DOMAIN filters # {} /\ total_rows > 0 /\ ~cache_valid

\* the filtered sequence a slice is cut from: the matching rows in store
\* order, or, under a known sort column, any arrangement of them in which no
\* row comes after a row it sorts strictly before
SliceBases(q) ==
    LET F == Filtered(store, q.filters)
        n == Len(F)
    IN  IF q.sort_col \in SchemaColumns
        THEN LET k == ColumnPos(q.sort_col)
             IN  { v \in [1..n -> { F[i] : i \in 1..n }] :
                     /\ \A i \in 1..n : \E j \in 1..n : v[j] = F[i]
                     /\ \A i \in 1..n : \A j \in (i+1)..n :
                           ~CellBefore(v[j][k], v[i][k], q.sort_asc) }
        ELSE { F }

\* rows are the entries offset+1 .. offset+limit of base (those that exist)
IsSlice(rows, base, q) ==
    /\ Len(rows) <= q.limit
    /\ Len(rows) = IF Len(base) <= q.offset THEN 0
                   ELSE Min(q.limit, Len(base) - q.offset)
    /\ \A i \in 1..Len(rows) : rows[i] = base[q.offset + i]

\* the store cannot run the statement of q: no handle, no table, a condition
\* on an unknown column, or a WHERE with no condition after it
SliceFails(q) ==
    \/ ~conn
    \/ db_file # "ok"
    \/ \E col \in DOMAIN q.filters : col \notin SchemaColumns
    \/ (DOMAIN q.filters # {} /\ \A col \in DOMAIN q.filters : q.filters[col] = <<>>)

\* C19 as stated: fetchSlice(limit, offset, filters, sort) returns at most
\* limit rows, namely the rows at positions offset .. offset+limit-1 of the
\* filtered sequence, ordered only if sort.column is a known schema column.
C19_AsStated ==
    (last.op = "fetch_data" /\ DOMAIN last.q.filters \subseteq SchemaColumns)
        => \E base \in SliceBases(last.q) : IsSlice(last.ret.v, base, last.q)

\* C19 amended: fetchSlice(limit, offset, filters, sort) returns an empty
\* sequence if the store query fails; otherwise it returns at most limit
\* rows, namely the rows at positions offset .. offset+limit-1 of the
\* filtered sequence, and applies an ordering only if sort.column is a known
\* schema column; an unknown sort column is ignored (store order is
\* returned) rather than causing a failure.
C19_FetchSlice ==
    last.op = "fetch_data"
        => /\ ~last.raised
           /\ IF SliceFails(last.q) THEN last.ret.v = <<>>
              ELSE \E base \in SliceBases(last.q) : IsSlice(last.ret.v, base, last.q)

\* C19 witness: a full slice from the middle of the table was returned in
\* store order under a sort column the table does not have.
C19_Witness ==
    /\ last.op = "fetch_data" /\ conn /\ last.q.sort_col = "bogus"
    /\ last.q.filters = <<>> /\ last.q.offset = 1 /\ last.q.limit = 2
    /\ Len(store) >= 3 /\ last.ret.v = <<store[2], store[3]>>

\* C21: connect() fails with a connection error whenever the store cannot
\* be opened or the required table is missing; it never returns normally
\* leaving an engine that looks connected but has no schema.
C21_ConnectFails ==
    last.op = "connect"
        => /\ db_file # "ok" => last.raised
           /\ ~last.raised => (conn /\ column_names # <<>>)

\* C22: disconnect() is idempotent and safe in any state: on a
\* never-connected or already-disconnected engine it does nothing and does
\* not fault; after it the handle is released, so that calling it twice
\* leaves the same state as calling it once; nothing but the handle changes.
C22_DisconnectIdempotent ==
    [][last'.op = "disconnect"
          => /\ ~conn' /\ ~last'.raised
             /\ UNCHANGED <<db_file, store, column_names, PAGE_SIZE, uiVars, ctxVars,
                            total_rows, cacheVars, issued_rows, store_changed>>
             /\ ~conn => conn' = conn]_vars

\* C22 witness: disconnect() was called on an engine that was never
\* connected (its file could have been opened).
C22_Witness ==
    /\ last.op = "disconnect" /\ ~last.raised /\ ~conn
    /\ column_names = <<>> /\ db_file = "ok" /\ Len(store) > 0

\* C23: distinctValues(column) returns the sorted, duplicate-free, non-null
\* values of column, and returns an empty sequence (no exception) when
\* column is not a schema column or the query fails.
C23_DistinctValues ==
    last.op = "get_distinct_values"
        => LET column == last.q.column
               vals == last.ret.v
           IN  /\ ~last.raised
               /\ IF column \notin SchemaColumns \/ ~conn \/ db_file # "ok"
                  THEN vals = <<>>
                  ELSE /\ \A i \in 1..Len(vals) : \A j \in (i+1)..Len(vals) :
                            TextLess(vals[i], vals[j])
                       /\ \A i \in 1..Len(vals) : \E r \in 1..Len(store) :
                            store[r][ColumnPos(column)] = Text(vals[i])
                       /\ \A r \in 1..Len(store) :
                            store[r][ColumnPos(column)].t = "text"
                              => \E i \in 1..Len(vals) :
                                    vals[i] = store[r][ColumnPos(column)].v

\* C23 witness: the titles of a table in which one title occurs twice came
\* back once each, in ascending order.
C23_Witness ==
    /\ last.op = "get_distinct_values" /\ last.q.column = "title"
    /\ store = RepeatStore /\ last.ret.v = << <<"A", "b">>, <<"B">> >>

\* C24: No QueryEngine or WindowCache operation (connect, totalCount,
\* fetchSlice, distinctValues, disconnect, refresh, value, setFilter,
\* clearFilters, setSort) changes the contents of the backing store: only
\* the import does.
C24_StoreUntouched ==
    [][last'.op # "import" => (store' = store /\ db_file' = db_file)]_vars

\* C24 witness: after imports, reconnecting, filtering, sorting and a fetch
\* the table holds exactly the rows that were imported.
C24_Witness ==
    /\ last.op = "value" /\ last.fetched /\ last.ret # None
    /\ store = StoreOf(MaxStore) /\ DOMAIN filters # {} /\ sort_col_name # ""

\* row r is not served by the window: the window is invalid, or r lies
\* outside [start, start + len(rows))
WindowMiss(r) ==
    ~cache_valid \/ r < cache_offset \/ r >= cache_offset + Len(cache_data)

\* C25 as stated: each refresh() issues exactly one count query and no slice
\* query; each value() call issues exactly one slice query if it is a miss
\* (window invalid or index outside [start, start+len(rows))) and no query
\* at all if it is a hit.
C25_AsStated ==
    [][/\ last'.op = "refresh" => (last'.counted /\ ~last'.fetched)
       /\ last'.op = "value"
            => \A r \in RowArgs, c \in ColArgs :
                  Value(r, c) => (~last'.counted /\ (last'.fetched <=> WindowMiss(r)))]_vars

\* C25 amended: each refresh() issues exactly one count query and no slice
\* query; each value() call for an in-range index issues exactly one slice
\* query (the page query of that row) if it is a miss and no query at all if
\* it is a hit; a value() call for an out-of-range index issues no query,
\* whatever the window holds.
C25_QueryMinimality ==
    [][/\ last'.op = "refresh" => (last'.counted /\ ~last'.fetched)
       /\ last'.op = "value"
            => \A r \in RowArgs, c \in ColArgs :
                  Value(r, c)
                    => /\ ~last'.counted
                       /\ IF 0 <= r /\ r < rowCount /\ 0 <= c /\ c < columnCount
                          THEN /\ last'.fetched <=> WindowMiss(r)
                               /\ last'.q = IF WindowMiss(r) THEN FetchQuery(r) ELSE NoQuery
                          ELSE ~last'.fetched /\ last'.q = NoQuery]_vars

\* C25 witness: a value() call for a row of the second page was a hit and
\* issued no query, an earlier call having fetched that page.
C25_Witness ==
    /\ ValueServed /\ ~last.fetched /\ ~last.counted /\ last.q = NoQuery
    /\ last.row >= PAGE_SIZE /\ cache_valid /\ cache_offset = PAGE_SIZE
    /\ last.ret # None

\* the rows of the first n imported rows that match f, in the order of
\* sort_col/asc (store order when there is no sort)
ViewOf(n, f, sort_col, asc) ==
    IF sort_col \in SchemaColumns
    THEN OrderBy(Filtered(StoreOf(n), f), ColumnPos(sort_col), asc)
    ELSE Filtered(StoreOf(n), f)

\* rows is what a page fetch at offset returns under (f, sort_col, asc):
\* nothing, or the page at offset of the matching rows of the table as it
\* stands or stood before some rows were imported
FetchedUnder(rows, offset, f, sort_col, asc) ==
    \/ rows = <<>>
    \/ /\ \A col \in DOMAIN f : col \in SchemaColumns
       /\ \E n \in 1..Len(store) :
             rows = SubSeq(ViewOf(n, f, sort_col, asc), offset + 1,
                           Min(offset + PAGE_SIZE, Len(ViewOf(n, f, sort_col, asc))))

\* C26: in every reachable state a valid window holds rows fetched under
\* exactly the FilterSet and SortSpec currently in effect, at a page-aligned
\* offset; no interleaving of set_filter, clear_filters, sort, refresh and
\* value leaves rows of a previous QueryContext in a valid window.
C26_QueryContextConsistent ==
    cache_valid
        => /\ cache_offset >= 0 /\ cache_offset % PAGE_SIZE = 0
           /\ FetchedUnder(cache_data, cache_offset, filters, sort_col_name, sort_asc)

\* C26 witness: a valid window of two rows fetched under a filter and a
\* descending sort, in an order the unsorted table does not have.
C26_Witness ==
    /\ cache_valid /\ Len(cache_data) = 2
    /\ DOMAIN filters = {"title"} /\ sort_col_name = "title" /\ ~sort_asc
    /\ cache_data # SubSeq(Filtered(store, filters), 1, 2)
    /\ last.op = "value" /\ last.fetched

\* C27: Wholesale replacement. After a miss fetch the window's rows are
\* exactly the sequence returned by that fetch and start is that fetch's
\* offset, with no row of the previous window retained; a call that does not
\* fetch, a hit in particular, leaves rows, start and valid unchanged.
C27_WholesaleReplacement ==
    [][last'.op \in {"value", "data"}
          => /\ last'.fetched
                  => /\ cache_data' = fetch_data(last'.q.limit, last'.q.offset, filters,
                                                 sort_col_name, sort_asc)
                     /\ cache_offset' = last'.q.offset
                     /\ cache_valid'
             /\ ~last'.fetched => UNCHANGED cacheVars
             /\ ~WindowMiss(last'.row) => (~last'.fetched /\ UNCHANGED cacheVars)]_vars

\* C27 witness: right after the window held the whole first page, the miss
\* for the next row replaced it by the shorter last page.
C27_Witness ==
    /\ last.op = "value" /\ last.fetched /\ last.rel = "next"
    /\ last.row = PAGE_SIZE /\ cache_valid /\ cache_offset = PAGE_SIZE
    /\ filters = <<>> /\ Len(cache_data) > 0
    /\ Len(cache_data) = Len(store) - PAGE_SIZE

\* a row export in progress: value(r, 0) for an in-range row was the last
\* call, and this step is value(r, 1), the read of the last schema column
ExportStep ==
    /\ last.op = "value" /\ last.row >= 0 /\ last.col = 0
    /\ last'.op = "value" /\ last'.row = last.row /\ last'.col = 1
    /\ columnCount = 2

\* C28 as stated: reading all columns 0..columnCount()-1 of one in-range row
\* with no intervening mutation causes at most one fetch in total and yields
\* a record with exactly one entry per schema column, all taken from the same
\* store row.
C28_AsStated ==
    [][ExportStep
          => /\ ~(last.fetched /\ last'.fetched)
             /\ \E i \in 1..Len(store) :
                    /\ last.ret = Display(store[i][1])
                    /\ last'.ret = Display(store[i][2])]_vars

\* C28 amended: reading all columns of one in-range row with no intervening
\* mutation yields one entry per schema column. If the first read returns a
\* value, there is at most one fetch in total and all entries are taken from
\* the same store row; if it returns absent (its fetch did not bring the
\* row), every further read re-issues the fetch and every entry is absent.
C28_RowExport ==
    [][ExportStep
          => IF last.ret # None
             THEN /\ ~last'.fetched
                  /\ \E i \in 1..Len(store) :
                         /\ last.ret = Display(store[i][1])
                         /\ last'.ret = Display(store[i][2])
             ELSE /\ last.fetched /\ last'.fetched
                  /\ last'.ret = None /\ cache_data' = <<>>]_vars

\* C28 witness: both columns of one row have been read in turn under a
\* descending sort; the read of the last column was a hit and returned the
\* empty text of the row's NULL cell.
C28_Witness ==
    /\ last.op = "value" /\ last.rel = "nextcol" /\ ~last.fetched
    /\ sort_col_name = "title" /\ ~sort_asc /\ filters = <<>>
    /\ cache_valid /\ PyInRange(cache_data, last.row - cache_offset)
    /\ cache_data[last.row - cache_offset + 1][2] = NULL
    /\ last.ret = Str(<<>>)

\* C29: Debounce. Every keystroke restarts the single-shot search timer and
\* calls neither set_filter nor refresh; set_filter is called only when the
\* timer expires, with the text then in the box, stripped, and with exactly
\* one refresh, and leaves the timer stopped; so a burst of keystrokes with
\* gaps shorter than the interval leads to exactly one set_filter call,
\* after the last keystroke.
C29_Debounce ==
    /\ [][/\ last'.op = "text_changed"
             => /\ search_timer' = TimerTicks
                /\ ~last'.counted
                /\ UNCHANGED <<ctxVars, total_rows, cacheVars>>
          /\ last'.op = "set_filter"
             => /\ search_timer = 0 /\ search_timer' = -1
                /\ search_text' = search_text
                /\ filters' = SetFilterResult(filters, "title", Strip(search_text))
                /\ last'.counted /\ ~cache_valid'
                /\ total_rows' = get_total_count(filters')
          /\ last'.op # "set_filter"
             => (filters' = filters /\ ~last'.counted)]_vars
    /\ (search_timer >= 0) ~> (search_timer = -1 /\ last.op = "set_filter")

\* C29 witness: a burst of MaxKeys keystrokes ended with " a" in the box;
\* the timer has expired and the one set_filter call carried "a".
C29_Witness ==
    /\ last.op = "set_filter" /\ search_timer = -1 /\ burst_keys = MaxKeys
    /\ search_text = <<" ", "a">>
    /\ DOMAIN filters = {"title"} /\ filters["title"] = <<"a">>
    /\ total_rows > 0

\* C30: a fetch that returns no rows is not remembered as a hit. The call
\* that fetched nothing returns absent; while the window is valid and empty
\* the next value() call for an in-range index issues a fetch again; and if
\* the store answers by then, that call returns the value of its row in the
\* current view, no refresh() having run in between.
C30_EmptyFetchNotAHit ==
    [][last'.op = "value" /\ last'.row >= 0
          => /\ (last'.fetched /\ cache_data' = <<>>) => last'.ret = None
             /\ (cache_valid /\ cache_data = <<>>)
                   => /\ last'.fetched
                      /\ last'.q = FetchQuery(last'.row)
                      /\ ~QueryWouldFail
                            => /\ last'.row < Len(CurrentView)
                               /\ last'.ret = Display(CurrentView[last'.row + 1]
                                                                 [last'.col + 1])]_vars

\* C30 witness: rows were written and the handle reopened since the last
\* refresh(); the first value() call after a fetch that returned no rows
\* fetched again and returned a value.
C30_Witness ==
    /\ last.op = "value" /\ last.rel = "afterempty"
    /\ last.fetched /\ last.ret # None
    /\ conn /\ store_changed /\ cache_data # <<>>

\* the last call answered with nothing, without raising
CameBackEmpty ==
    /\ ~last.raised
    /\ last.op = "get_total_count" => last.ret = [t |-> "int", v |-> 0]
    /\ last.op = "fetch_data" => last.ret = Rows(<<>>)
    /\ last.op = "get_distinct_values" => last.ret = Rows(<<>>)
    /\ last.op = "refresh" => total_rows = 0

EngineCalls == { "get_total_count", "fetch_data", "get_distinct_values", "refresh", "value" }

\* C31 as stated: operations on an engine that is not connected (before
\* connect(), after disconnect(), or while the read handle is released for
\* an import) degrade to empty instead of faulting: totalCount returns 0,
\* fetchSlice and distinctValues return an empty sequence, and value()
\* returns absent.
C31_AsStated ==
    (~conn /\ last.op \in EngineCalls)
        => /\ CameBackEmpty
           /\ last.op = "value" => last.ret = None

\* C31 amended: on an engine that is not connected no operation faults;
\* totalCount returns 0, fetchSlice and distinctValues return an empty
\* sequence, and value() returns absent unless its row is still held by the
\* window fetched while the handle was open, in which case it returns the
\* cached value without a query.
C31_NotConnected ==
    (~conn /\ last.op \in EngineCalls)
        => /\ CameBackEmpty
           /\ last.op = "value"
                => \/ last.ret = None
                   \/ /\ ~last.fetched /\ cache_valid
                      /\ PyInRange(cache_data, last.row - cache_offset)
                      /\ last.row >= cache_offset
                      /\ last.ret = Display(cache_data[last.row - cache_offset + 1]
                                                       [last.col + 1])

\* C31 witness: the handle was released by start of an import or by
\* disconnect() while the table held rows; a fetchSlice for its first page
\* came back empty.
C31_Witness ==
    /\ ~conn /\ column_names = Schema /\ Len(store) > 0
    /\ last.op = "fetch_data" /\ last.q.filters = <<>> /\ last.q.offset = 0
    /\ last.ret = Rows(<<>>)

\* C32: a filter mapping whose patterns are all empty is treated as
\* unconstrained: totalCount and fetchSlice called with such a mapping return
\* the same result as when called with no filters at all.
C32_AllEmptyUnconstrained ==
    /\ (last.op = "get_total_count"
          /\ \A col \in DOMAIN last.q.filters : last.q.filters[col] = <<>>)
        => last.ret = [t |-> "int", v |-> get_total_count(<<>>)]
    /\ (last.op = "fetch_data"
          /\ \A col \in DOMAIN last.q.filters : last.q.filters[col] = <<>>)
        => last.ret = Rows(fetch_data(last.q.limit, last.q.offset, <<>>,
                                      last.q.sort_col, last.q.sort_asc))

\* C33: sort(columnIndex, order) with columnIndex outside [0, columnCount())
\* (including -1 and, when the schema is empty, any index) does not fault
\* and does not set a sort column; the sort column held by the cache is
\* always either unset or the schema column at the requested index.
C33_SortOutOfRange ==
    [][last'.op = "sort"
          => \A column \in ColArgs, ascending \in BOOLEAN :
                (sort(column, ascending) /\ ~(0 <= column /\ column < columnCount))
                    => (~last'.raised /\ sort_col_name' = sort_col_name)]_vars

\* C34: value() distinguishes a null cell from an out-of-range access. For
\* an in-range index, if the window after the call holds the row, value()
\* returns the empty string for a null cell and the cell's text for any
\* other cell; it returns absent only when the window after the fetch does
\* not hold the row.
C34_NullVersusAbsent ==
    [][(last'.op = "value" /\ last'.row >= 0)
          => LET li == last'.row - cache_offset'
             IN  IF cache_valid' /\ 0 <= li /\ li < Len(cache_data')
                 THEN LET cell == cache_data'[li + 1][last'.col + 1]
                      IN  /\ last'.ret # None
                          /\ cell.t = "NULL" => last'.ret = Str(<<>>)
                          /\ cell.t = "text" => last'.ret = Str(cell.v)
                 ELSE last'.ret = None /\ last'.fetched]_vars

\* C34 witness: a value() call fetched its page and returned the empty
\* string for the null platform of the first row.
C34_Witness ==
    /\ last.op = "value" /\ last.fetched /\ last.row = 0 /\ last.col = 1
    /\ cache_valid /\ cache_offset = 0 /\ cache_data # <<>>
    /\ filters = <<>> /\ sort_col_name = ""
    /\ cache_data[1][2] = NULL /\ last.ret = Str(<<>>)

\* C35: each run of the ingestion worker emits at most one terminal signal,
\* finished(stats) or error_occurred(message), never both; finished is
\* emitted only if the run was not stopped; and no progress_changed signal
\* is emitted after stop() has returned.
C35_WorkerSignals ==
    [][/\ emitted'.finished + emitted'.error <= 1
       /\ emitted'.finished > emitted.finished => stop_state = "none"
       /\ stop_state = "returned" => emitted'.progress = emitted.progress]_vars

----------------------------------------------------------------------------
(* Launcher.  The class body defines launch twice; the second definition
   (LAUNCH_ARGS, no launcher classes) rebinds the name and is the one callers
   reach.  The factory and the launcher classes it dispatches to are modelled
   as operators. *)

LaunchPlatforms ==
    {"Commodore Amiga", "Commodore 64", "Amstrad CPC", "Sinclair ZX Spectrum", "DOS",
     "Atari ST", "Atari 8bit", "ScummVM", "Nintendo 64"}

\* Launcher.SIMPLE_ARGS
SIMPLE_ARGS ==
    [x \in {"Commodore 64", "Amstrad CPC", "Sinclair ZX Spectrum", "DOS", "Atari ST",
            "Atari 8bit"} |->
        CASE x = "Commodore 64" -> <<"-autostart", "{game_path}">>
          [] x = "DOS" -> <<"-conf", "{game_path}">>
          [] OTHER -> <<"{game_path}">>]

\* Launcher.LAUNCH_ARGS
LAUNCH_ARGS ==
    [x \in {"Commodore 64", "Commodore Amiga", "Amstrad CPC", "Sinclair ZX Spectrum",
            "DOS", "ScummVM", "Atari ST", "Atari 8bit"} |->
        CASE x = "Commodore 64" -> <<"-autostart", "{game_path}">>
          [] x = "DOS" -> <<"-conf", "{game_path}">>
          [] x = "ScummVM" -> <<"-p", "{game_dir}", "{game_id}">>
          [] OTHER -> <<"{game_path}">>]

\* arg.format(game_path=..., game_dir=...): a placeholder with no keyword raises
\* KeyError
Formattable(arg) == arg # "{game_id}"
Format(arg, game_path) ==
    CASE arg = "{game_path}" -> game_path
      [] arg = "{game_dir}" -> "dirname"
      [] OTHER -> arg

\* SimpleLauncher(arg_template).get_launch_command
SimpleLauncher(arg_template, emulator_exe, game_path) ==
    <<emulator_exe>> \o [i \in 1..Len(arg_template) |-> Format(arg_template[i], game_path)]

\* AmigaLauncher.get_launch_command: the config when one could be generated, else
\* no command
AmigaLauncher(emulator_exe, config_path) ==
    IF config_path # "" THEN <<emulator_exe, "-f", config_path>> ELSE <<>>

\* the command the factory's dispatch (the first definition of launch) builds
FactoryCommand(emulator_exe, game_path, platform, config_path) ==
    IF platform = "Commodore Amiga" THEN AmigaLauncher(emulator_exe, config_path)
    ELSE IF platform \in DOMAIN SIMPLE_ARGS
         THEN SimpleLauncher(SIMPLE_ARGS[platform], emulator_exe, game_path)
    ELSE SimpleLauncher(<<"{game_path}">>, emulator_exe, game_path)

\* the arguments of a call and the files it meets: either path may be empty or
\* name a file that is not there; config_path is what AmigaLauncher._create_config
\* would return ("" for None); popen_ok is whether the process can be started
LaunchInputs ==
    [emulator_exe : {"", "emu"}, exe_exists : BOOLEAN, game_path : {"", "game"},
     game_exists : BOOLEAN, platform : LaunchPlatforms, config_path : {"", "config"},
     popen_ok : BOOLEAN]

Ready(call) == [op |-> "ready", call |-> call]

\* Launcher.launch(emulator_exe, game_path, system_name), the second definition
Launcher_launch ==
    /\ launcher.op = "ready"
    /\ LET call == launcher.call
           args_template == IF call.platform \in DOMAIN LAUNCH_ARGS
                            THEN LAUNCH_ARGS[call.platform] ELSE <<"{game_path}">>
           cmd == SimpleLauncher(args_template, call.emulator_exe, call.game_path)
           Outcome(ret, raised, command, started) ==
               [op |-> "launch", call |-> call, ret |-> ret, raised |-> raised,
                command |-> command, started |-> started]
       IN  launcher' =
             IF call.emulator_exe = "" \/ ~call.exe_exists
                 THEN Outcome(FALSE, "", <<>>, FALSE)
             ELSE IF call.game_path = "" \/ ~call.game_exists
                 THEN Outcome(FALSE, "", <<>>, FALSE)
             ELSE IF \E i \in 1..Len(args_template) : ~Formattable(args_template[i])
                 THEN Outcome(FALSE, "KeyError", <<>>, FALSE)
             ELSE IF call.popen_ok THEN Outcome(TRUE, "", cmd, TRUE)
             ELSE Outcome(FALSE, "", cmd, FALSE)
    /\ UNCHANGED <<dbVars, PAGE_SIZE, searchVars, import_enabled, workerVars, panel,
                   folders, ensured, ctxVars, total_rows, cacheVars, issued_rows,
                   store_changed, last>>

\* the caller is ready for another call
launch_again(call) ==
    /\ launcher.op = "launch"
    /\ launcher' = Ready(call)
    /\ UNCHANGED <<dbVars, PAGE_SIZE, searchVars, import_enabled, workerVars, panel,
                   folders, ensured, ctxVars, total_rows, cacheVars, issued_rows,
                   store_changed, last>>

LauncherInit ==
    /\ ModelInit
    /\ conn = FALSE
    /\ FrontInit
    /\ panel = PanelNew
    /\ folders = {}
    /\ ensured = NotEnsured
    /\ launcher \in { Ready(call) : call \in LaunchInputs }

LauncherNext ==
    \/ Launcher_launch
    \/ \E call \in LaunchInputs : launch_again(call)

LauncherSpec == LauncherInit /\ [][LauncherNext]_vars

----------------------------------------------------------------------------
(* The detail panel, the vault structure and the launcher *)

\* C37: in the detail panel, after any sequence of update_data and clear calls,
\* the Play button is enabled if and only if current_playable_path is set, and a
\* path that is set is the playable media found for the row most recently passed
\* to update_data, never one left over from a row selected before.  The code
\* breaks this: with a valid vault, update_data on a row whose title is only the
\* article ("the ") raises IndexError in _locate_game_folder, reached from
\* _load_cover before _check_playable_media has reset the button, so the button
\* and the path of the row shown before stay in place.
C37_PlayFollowsRow ==
    /\ panel.launch_enabled <=> panel.current_playable_path # <<>>
    /\ panel.current_playable_path # <<>> =>
          /\ panel.sought.op = "update_data"
          /\ panel.current_playable_path = panel.sought.media

\* C38: Launcher.launch(emulator_exe, game_path, platform) dispatches by platform:
\* "Commodore Amiga" runs [exe, "-f", generated config] and returns False with no
\* process when no config can be generated, a platform of SIMPLE_ARGS runs the exe
\* with that platform's argument template, any other platform runs the generic
\* [exe, game_path]; whatever the platform it returns False and starts nothing
\* when the emulator executable or the game file does not exist.  The code
\* breaks this: the second definition of launch replaces the factory, so Amiga
\* runs [exe, game_path] with no config, and "ScummVM" raises KeyError.
C38_Dispatch ==
    launcher.op = "launch" =>
        LET call == launcher.call
            command == FactoryCommand(call.emulator_exe, call.game_path, call.platform,
                                      call.config_path)
        IN  IF \/ call.emulator_exe = "" \/ ~call.exe_exists
               \/ call.game_path = "" \/ ~call.game_exists
            THEN launcher.ret = FALSE /\ ~launcher.started /\ launcher.raised = ""
            ELSE /\ launcher.raised = ""
                 /\ IF command = <<>>
                    THEN launcher.ret = FALSE /\ ~launcher.started
                    ELSE /\ launcher.command = command
                         /\ launcher.started = call.popen_ok
                         /\ launcher.ret = call.popen_ok

\* Games and the 27 prefix folders under it
StandardFolders(root_path) ==
    {games_root(root_path)}
    \cup { games_root(root_path) \o <<prefixes[i]>> : i \in 1..Len(prefixes) }

\* C39: ensure_structure is idempotent.  A call on a set vault path creates
\* exactly the folders missing among Games, Games/0-9 and Games/A..Games/Z (all
\* of them exist afterwards, none is created that was there) and returns their
\* paths, each once; a second call with no change in between creates nothing
\* and returns the empty list; with no vault path set the call raises ValueError
\* and creates nothing.
C39_EnsureStructure ==
    [][ensured' # ensured =>
          /\ (ensured'.status = "ValueError") <=> (ensured'.root_path = "")
          /\ ensured'.status = "ValueError" =>
                /\ folders' = folders
                /\ ensured'.created = <<>>
          /\ ensured'.status = "returned" =>
                /\ Range(ensured'.created) = StandardFolders(ensured'.root_path) \ folders
                /\ Len(ensured'.created) = Cardinality(Range(ensured'.created))
                /\ StandardFolders(ensured'.root_path) \subseteq folders'
                /\ (folders' \ folders) \cap StandardFolders(ensured'.root_path)
                      = Range(ensured'.created)
                /\ folders \subseteq folders'
                /\ ensured'.again => /\ ensured'.created = <<>>
                                     /\ folders' = folders]_vars

\* a first call created folders, and a second call on the unchanged vault returned
C39_Witness ==
    /\ ensured.status = "returned"
    /\ ensured.again
    /\ ensured.earlier > 0
    /\ ensured.created = <<>>

====
